---- MODULE Spec2Model ----
(***************************************************************************)
(* A model of gdcm_conv::pipeline (src/src/lib.rs): the mapping of the     *)
(* post transfer syntax onto the six codec parameters, the sizing of the   *)
(* reused source vector, the call of the native c_convert, the single      *)
(* retry on the 0xFF status and the translation of the final status.       *)
(*                                                                         *)
(* A u32 is the pair <<hi, lo>> of its 16-bit halves (its value is         *)
(* hi * 2^16 + lo, 0 <= hi, lo < 2^16); an i32 is the pair <<hi, lo>> with *)
(* -2^15 <= hi < 2^15.  Two such pairs are equal exactly when the numbers  *)
(* they stand for are equal, so the full 32-bit width is kept.             *)
(*                                                                         *)
(* Vec::reserve is modelled by its documented contract, and is taken to    *)
(* succeed (no allocation failure, no capacity overflow).                  *)
(***************************************************************************)
EXTENDS Integers, Sequences, FiniteSets, TLC

\* ---------------------------------------------------------------- bounds
MaxLen == 2        \* source lengths 0..MaxLen
ExtraCap == 1      \* spare capacity the caller's vector may already have
MaxEst == 2        \* estimated_length is None or Some(0..MaxEst)
MaxSize == 3       \* sizes the native call reports: 0..MaxSize
Slack == 1         \* capacity Vec::reserve may add beyond what was asked

\* ------------------------------------------------------- 32-bit integers
Half == 2^16

U32Zero == <<0, 0>>

\* t > 0 and t != 0 on a u32
NonZero(t) == t # U32Zero

\* `x as i32` on a u32: the same 32 bits read as two's complement
AsI32(t) == IF t[1] >= 32768 THEN <<t[1] - Half, t[2]>> ELSE t

\* `b as c_char` on a bool
AsCChar(b) == IF b THEN 1 ELSE 0

\* the u32 payloads the requests are built from: 0, 85 and 2^31
U32Samples == {<<0, 0>>, <<0, 85>>, <<32768, 0>>}

\* ------------------------------------------------------ TransferSyntax
\* A TransferSyntax value is the tuple of its variant name and its payload.
PlainSyntaxes ==
    {<<"None">>, <<"ImplicitVRLittleEndian">>, <<"ExplicitVRLittleEndian">>,
     <<"ExplicitVRBigEndian">>, <<"RLELossless">>, <<"JPEGLosslessProcess14">>,
     <<"JPEGLosslessProcess14_1">>, <<"JPEGLSLossless">>, <<"JPEG2000Lossless">>,
     <<"JPEG2000Part2Lossless">>, <<"MPEG2MainProfile">>}

TransferSyntax(P) ==
    PlainSyntaxes
    \cup {<<"JPEGBaselineProcess1", q>> : q \in P}
    \cup {<<"JPEGExtendedProcess2_4", q>> : q \in P}
    \cup {<<"JPEGLSNearLossless", t>> : t \in P}
    \cup {<<"JPEG2000", q[1], q[2], q[3], irr>> : q \in P \X P \X P, irr \in BOOLEAN}
    \cup {<<"JPEG2000Part2", q[1], q[2], q[3], irr>> : q \in P \X P \X P, irr \in BOOLEAN}

\* RLELossless numbered by its place in the declaration
TransferSyntax_to_id_Declared(ts) ==
    CASE ts[1] = "None" -> 0
      [] ts[1] = "ImplicitVRLittleEndian" -> 1
      [] ts[1] = "ExplicitVRLittleEndian" -> 2
      [] ts[1] = "ExplicitVRBigEndian" -> 3
      [] ts[1] = "RLELossless" -> 4
      [] ts[1] = "JPEGBaselineProcess1" -> 4
      [] ts[1] = "JPEGExtendedProcess2_4" -> 5
      [] ts[1] = "JPEGLosslessProcess14" -> 6
      [] ts[1] = "JPEGLosslessProcess14_1" -> 7
      [] ts[1] = "JPEGLSLossless" -> 8
      [] ts[1] = "JPEGLSNearLossless" -> 9
      [] ts[1] = "JPEG2000Lossless" -> 10
      [] ts[1] = "JPEG2000" -> 11
      [] ts[1] = "JPEG2000Part2Lossless" -> 12
      [] ts[1] = "JPEG2000Part2" -> 13
      [] ts[1] = "MPEG2MainProfile" -> 15

TransferSyntax_to_id(ts) ==
    CASE ts[1] = "None" -> 0
      [] ts[1] = "ImplicitVRLittleEndian" -> 1
      [] ts[1] = "ExplicitVRLittleEndian" -> 2
      [] ts[1] = "ExplicitVRBigEndian" -> 3
      [] ts[1] = "JPEGBaselineProcess1" -> 4
      [] ts[1] = "JPEGExtendedProcess2_4" -> 5
      [] ts[1] = "JPEGLosslessProcess14" -> 6
      [] ts[1] = "JPEGLosslessProcess14_1" -> 7
      [] ts[1] = "JPEGLSLossless" -> 8
      [] ts[1] = "JPEGLSNearLossless" -> 9
      [] ts[1] = "JPEG2000Lossless" -> 10
      [] ts[1] = "JPEG2000" -> 11
      [] ts[1] = "JPEG2000Part2Lossless" -> 12
      [] ts[1] = "JPEG2000Part2" -> 13
      [] ts[1] = "RLELossless" -> 14
      [] ts[1] = "MPEG2MainProfile" -> 15

\* --------------------------------------------- PhotometricInterpretation
PhotometricInterpretation ==
    {"None", "Monochrome1", "Monochrome2", "PaletteColor", "RGB", "HSV", "ARGB",
     "CMYK", "YbrFull", "YbrFull422", "YbrPartial422", "YbrPartial420", "YbrIct",
     "YbrRct"}

PhotometricInterpretation_to_id(pi) ==
    CASE pi = "None" -> 0
      [] pi = "Monochrome1" -> 1
      [] pi = "Monochrome2" -> 2
      [] pi = "PaletteColor" -> 3
      [] pi = "RGB" -> 4
      [] pi = "HSV" -> 5
      [] pi = "ARGB" -> 6
      [] pi = "CMYK" -> 7
      [] pi = "YbrFull" -> 8
      [] pi = "YbrFull422" -> 9
      [] pi = "YbrPartial422" -> 10
      [] pi = "YbrPartial420" -> 11
      [] pi = "YbrIct" -> 12
      [] pi = "YbrRct" -> 13

\* ------------------------------------------- lossy compression parameters
\* the tuple (is_lossy, quality1, quality2, quality3, irreversible,
\* allow_error) bound at the head of pipeline; the integers are u32
Params(l, q1, q2, q3, irr, ae) ==
    [is_lossy |-> l, quality1 |-> q1, quality2 |-> q2, quality3 |-> q3,
     irreversible |-> irr, allow_error |-> ae]

NotLossy == Params(FALSE, U32Zero, U32Zero, U32Zero, FALSE, U32Zero)

LossyParameters(post) ==
    CASE post[1] = "JPEGBaselineProcess1" ->
            IF NonZero(post[2])
            THEN Params(TRUE, post[2], U32Zero, U32Zero, FALSE, U32Zero)
            ELSE NotLossy
      [] post[1] = "JPEGExtendedProcess2_4" ->
            IF NonZero(post[2])
            THEN Params(TRUE, post[2], U32Zero, U32Zero, FALSE, U32Zero)
            ELSE NotLossy
      [] post[1] = "JPEGLSNearLossless" ->
            IF NonZero(post[2])
            THEN Params(TRUE, U32Zero, U32Zero, U32Zero, FALSE, post[2])
            ELSE Params(FALSE, U32Zero, U32Zero, U32Zero, FALSE, post[2])
      [] post[1] = "JPEG2000" ->
            IF NonZero(post[2]) \/ NonZero(post[3]) \/ NonZero(post[4]) \/ post[5]
            THEN Params(TRUE, post[2], post[3], post[4], post[5], U32Zero)
            ELSE NotLossy
      [] post[1] = "JPEG2000Part2" ->
            IF NonZero(post[2]) \/ NonZero(post[3]) \/ NonZero(post[4]) \/ post[5]
            THEN Params(TRUE, post[2], post[3], post[4], post[5], U32Zero)
            ELSE NotLossy
      [] OTHER -> NotLossy

\* --------------------------------------------------------- Vec<u8> sizing
\* Option<usize>: None is <<>>, Some(t) is <<t>>
None == <<>>
Some(t) == <<t>>

\* the reservation left out: the capacity stays as it is
reserveNothing(len, cap, additional) == {cap}

\* a reallocation to exactly len + additional, spare capacity or not
reserveExactly(len, cap, additional) == {len + additional}

\* the capacities Vec::reserve(additional) may leave: unchanged when the
\* spare capacity suffices, otherwise at least len + additional
reserve(len, cap, additional) ==
    IF cap - len >= additional
    THEN {cap}
    ELSE (len + additional) .. (len + additional + Slack)

\* three times the length as the capacity, not as the addition
AddCapacityTotal(len, cap, estimated) ==
    IF estimated # None
    THEN reserve(len, cap, estimated[1])
    ELSE reserve(len, cap, len * 3 - len)

\* what is reserved before the first call
AddCapacity(len, cap, estimated) ==
    IF estimated # None
    THEN reserve(len, cap, estimated[1])
    ELSE reserve(len, cap, len * 3)

\* ---------------------------------------------------- the native function
OVERSIZED == 255     \* 0xFF

\* 0x00, 0x0F, 0x1F, 0x11-0x16, 0x21-0x25, 0x31-0x36: the statuses the
\* translation names
NamedStatuses == {0, 15, 31} \cup (17 .. 22) \cup (33 .. 37) \cup (49 .. 54)

\* the statuses the native call is let return (c_uint): the named ones, 0xFF
\* and 0x01, 0x17, 0x26, 0x37, 0xFE, 0x100, 0x111, 0x1FF, 0x10000
StatusValues ==
    NamedStatuses \cup {OVERSIZED} \cup {1, 23, 38, 55, 254, 256, 273, 511, 65536}

\* the needed size 5000 of the documented retry scenario is among them
SizeValues == (0 .. MaxSize) \cup {5000}

output_t == [status : StatusValues, size : SizeValues]

\* the outcomes of c_convert, whose body is outside lib.rs: by its documented
\* contract an empty source is answered 0x1F (EmptyBuffer) and a success
\* reports a produced size that fits max_size; every other status, 0xFF
\* with its needed size included, may come with any size
c_convert(source_len, max_size_arg) ==
    IF source_len = 0
    THEN {o \in output_t : o.status = 31}
    ELSE {o \in output_t : o.status = 0 => o.size <= max_size_arg}

\* ----------------------------------------------------- translate errors
Ok == <<"Ok">>
Err(e) == <<"Err">> \o e

\* 0xFF taken for a success
TranslateErrorsOversizedOk(status) ==
    IF status = OVERSIZED THEN Ok ELSE Err(<<"Unknown">>)

\* 0x0F and 0x1F exchanged
TranslateErrorsSwapped(status) ==
    CASE status = 0 -> Ok
      [] status = 15 -> Err(<<"EmptyBuffer">>)
      [] status = 31 -> Err(<<"PointerNULL">>)
      [] OTHER -> Err(<<"Unknown">>)

\* the status matched as a byte
TranslateErrorsByte(status) ==
    CASE status % 256 = 0 -> Ok
      [] status % 256 = 17 -> Err(<<"Pre", "ReadStream">>)
      [] status % 256 = 18 -> Err(<<"Pre", "FileExplicitFilter">>)
      [] status % 256 = 19 -> Err(<<"Pre", "InvalidTransferSyntax">>)
      [] status % 256 = 20 -> Err(<<"Pre", "ExecuteChange">>)
      [] status % 256 = 21 -> Err(<<"Pre", "DeriveFile">>)
      [] status % 256 = 22 -> Err(<<"Pre", "WriteStream">>)
      [] status % 256 = 33 -> Err(<<"Photo", "ReadStream">>)
      [] status % 256 = 34 -> Err(<<"Photo", "InvalidPhotometricInterpretation">>)
      [] status % 256 = 35 -> Err(<<"Photo", "ExecuteChange">>)
      [] status % 256 = 36 -> Err(<<"Photo", "ExecuteLUTChange">>)
      [] status % 256 = 37 -> Err(<<"Photo", "WriteStream">>)
      [] status % 256 = 49 -> Err(<<"Post", "ReadStream">>)
      [] status % 256 = 50 -> Err(<<"Post", "FileExplicitFilter">>)
      [] status % 256 = 51 -> Err(<<"Post", "InvalidTransferSyntax">>)
      [] status % 256 = 52 -> Err(<<"Post", "ExecuteChange">>)
      [] status % 256 = 53 -> Err(<<"Post", "DeriveFile">>)
      [] status % 256 = 54 -> Err(<<"Post", "WriteStream">>)
      [] status % 256 = 15 -> Err(<<"PointerNULL">>)
      [] status % 256 = 31 -> Err(<<"EmptyBuffer">>)
      [] OTHER -> Err(<<"Unknown">>)

TranslateErrors(status) ==
    CASE status = 0 -> Ok
      [] status = 17 -> Err(<<"Pre", "ReadStream">>)
      [] status = 18 -> Err(<<"Pre", "FileExplicitFilter">>)
      [] status = 19 -> Err(<<"Pre", "InvalidTransferSyntax">>)
      [] status = 20 -> Err(<<"Pre", "ExecuteChange">>)
      [] status = 21 -> Err(<<"Pre", "DeriveFile">>)
      [] status = 22 -> Err(<<"Pre", "WriteStream">>)
      [] status = 33 -> Err(<<"Photo", "ReadStream">>)
      [] status = 34 -> Err(<<"Photo", "InvalidPhotometricInterpretation">>)
      [] status = 35 -> Err(<<"Photo", "ExecuteChange">>)
      [] status = 36 -> Err(<<"Photo", "ExecuteLUTChange">>)
      [] status = 37 -> Err(<<"Photo", "WriteStream">>)
      [] status = 49 -> Err(<<"Post", "ReadStream">>)
      [] status = 50 -> Err(<<"Post", "FileExplicitFilter">>)
      [] status = 51 -> Err(<<"Post", "InvalidTransferSyntax">>)
      [] status = 52 -> Err(<<"Post", "ExecuteChange">>)
      [] status = 53 -> Err(<<"Post", "DeriveFile">>)
      [] status = 54 -> Err(<<"Post", "WriteStream">>)
      [] status = 15 -> Err(<<"PointerNULL">>)
      [] status = 31 -> Err(<<"EmptyBuffer">>)
      [] OTHER -> Err(<<"Unknown">>)

\* the retry condition: ret.status == 0xFF
NeedsRetryOnError(status) == status # 0
NeedsRetry(status) == status = OVERSIZED

\* the max_size argument of the retry call: ret.size
RetryMaxSizeCapacity(size, cap) == cap
RetryMaxSize(size, cap) == size

\* source.len() of the vector pipeline ends with: set_len(ret.size) on
\* status 0 (ret.size <= capacity there, see c_convert), unchanged otherwise
LengthKept(status, size, len) == len
LengthAfter(status, size, len) == IF status = 0 THEN size ELSE len

\* ------------------------------------------------------------------ state
VARIABLES
    pc,                          \* where pipeline stands
    source_len, source_cap,      \* source.len(), source.capacity()
    estimated_length,
    transfer_syntax_pre, photometric_interpretation, transfer_syntax_post,
    params,                      \* (is_lossy, quality1, ..., allow_error)
    max_size,
    ret,                         \* the output_t of the last native call
    calls,                       \* the arguments of the native calls made
    capacity_at_call,            \* source.capacity() at each of them
    returned,                    \* what each of them returned
    input_len,                   \* source.len() when pipeline was called
    result                       \* what pipeline returned

vars == <<pc, source_len, source_cap, estimated_length, transfer_syntax_pre,
          photometric_interpretation, transfer_syntax_post, params, max_size,
          ret, calls, capacity_at_call, returned, input_len, result>>

request == <<estimated_length, transfer_syntax_pre, photometric_interpretation,
             transfer_syntax_post, input_len>>

Pending == <<"Pending">>

\* the arguments of one call of c_convert (source_ptr left out)
Arguments(max_size_arg) ==
    [source_len |-> source_len,
     max_size |-> max_size_arg,
     transfer_syntax_pre |-> TransferSyntax_to_id(transfer_syntax_pre),
     transfer_syntax_post |-> TransferSyntax_to_id(transfer_syntax_post),
     photometric_interpretation |->
         PhotometricInterpretation_to_id(photometric_interpretation),
     is_lossy |-> AsCChar(params.is_lossy),
     quality1 |-> AsI32(params.quality1),
     quality2 |-> AsI32(params.quality2),
     quality3 |-> AsI32(params.quality3),
     irreversible |-> AsCChar(params.irreversible),
     allow_error |-> AsI32(params.allow_error)]

\* ---------------------------------------------------------------- inputs
\* the 100-byte input of the documented scenario is among the lengths
SourceLengths == (0 .. MaxLen) \cup {100}

EstimatedLengths == {None} \cup {Some(t) : t \in 0 .. MaxEst}

\* the requests the buffer is exercised with
BufferRequests ==
    {<<<<"JPEG2000Lossless">>, "None", <<"None">>>>,
     <<<<"ExplicitVRLittleEndian">>, "RGB", <<"JPEG2000", <<0, 85>>, U32Zero, U32Zero, TRUE>>>>,
     <<<<"None">>, "Monochrome2", <<"JPEGBaselineProcess1", <<0, 85>>>>>>}

\* every post syntax under two pairs of pre syntax and photometric
\* interpretation, and every pre syntax with every photometric interpretation
CodecRequests ==
    {<<p[1], p[2], post>> :
        p \in {<<<<"JPEG2000Lossless">>, "None">>,
               <<<<"JPEGLSNearLossless", <<0, 85>>>>, "RGB">>},
        post \in TransferSyntax(U32Samples)}
    \cup (TransferSyntax({<<0, 85>>}) \X PhotometricInterpretation \X {<<"None">>})

InitLocals ==
    /\ pc = "entry"
    /\ params = NotLossy
    /\ max_size = 0
    /\ ret = [status |-> 0, size |-> 0]
    /\ calls = <<>>
    /\ capacity_at_call = <<>>
    /\ returned = <<>>
    /\ input_len = source_len
    /\ result = Pending

Init ==
    /\ source_len \in SourceLengths
    /\ source_cap \in source_len .. (source_len + ExtraCap)
    /\ estimated_length \in EstimatedLengths
    /\ \E r \in BufferRequests :
          /\ transfer_syntax_pre = r[1]
          /\ photometric_interpretation = r[2]
          /\ transfer_syntax_post = r[3]
    /\ InitLocals

InitCodec ==
    /\ source_len = 1
    /\ source_cap = source_len
    /\ estimated_length = None
    /\ \E r \in CodecRequests :
          /\ transfer_syntax_pre = r[1]
          /\ photometric_interpretation = r[2]
          /\ transfer_syntax_post = r[3]
    /\ InitLocals

\* ---------------------------------------------------------------- actions
\* lines 276-329: map the parameters, add capacity, read it as max_size
Prepare ==
    /\ pc = "entry"
    /\ params' = LossyParameters(transfer_syntax_post)
    /\ source_cap' \in AddCapacity(source_len, source_cap, estimated_length)
    /\ max_size' = source_cap'
    /\ pc' = "call"
    /\ UNCHANGED <<source_len, request, ret, calls, capacity_at_call, returned,
                   result>>

\* lines 331-347: the first native call
FirstCall ==
    /\ pc = "call"
    /\ ret' \in c_convert(source_len, max_size)
    /\ calls' = Append(calls, Arguments(max_size))
    /\ capacity_at_call' = Append(capacity_at_call, source_cap)
    /\ returned' = Append(returned, ret')
    /\ pc' = "called"
    /\ UNCHANGED <<source_len, source_cap, request, params, max_size, result>>

\* lines 349-375: on 0xFF reserve ret.size and call again with ret.size
Retry ==
    /\ pc = "called"
    /\ NeedsRetry(ret.status)
    /\ source_cap' \in reserve(source_len, source_cap, ret.size)
    /\ ret' \in c_convert(source_len, RetryMaxSize(ret.size, source_cap'))
    /\ calls' = Append(calls, Arguments(RetryMaxSize(ret.size, source_cap')))
    /\ capacity_at_call' = Append(capacity_at_call, source_cap')
    /\ returned' = Append(returned, ret')
    /\ pc' = "retried"
    /\ UNCHANGED <<source_len, request, params, max_size, result>>

\* lines 377-410: translate the last status; on success set the length
Translate ==
    /\ \/ pc = "retried"
       \/ pc = "called" /\ ~NeedsRetry(ret.status)
    /\ result' = TranslateErrors(ret.status)
    /\ source_len' = LengthAfter(ret.status, ret.size, source_len)
    /\ pc' = "done"
    /\ UNCHANGED <<source_cap, request, params, max_size, ret, calls,
                   capacity_at_call, returned>>

Next == Prepare \/ FirstCall \/ Retry \/ Translate

Spec == Init /\ [][Next]_vars

SpecCodec == InitCodec /\ [][Next]_vars

TypeOK ==
    /\ pc \in {"entry", "call", "called", "retried", "done"}
    /\ Len(calls) <= 2
    /\ source_len <= source_cap \/ pc = "done"

\* ---------------------------------------------------------------- claims
Last(seq) == seq[Len(seq)]

\* C1: in one call of pipeline the native function is called once when the
\* first call's status is not 0xFF and twice when it is 0xFF, and never a
\* third time, whatever the statuses returned.
C1_CallCount ==
    /\ Len(calls) <= 2
    /\ Len(calls) = Len(returned)
    /\ pc \in {"called"} => Len(calls) = 1
    /\ pc \in {"retried"} => Len(calls) = 2
    /\ pc = "done" =>
          Len(calls) = IF returned[1].status = 255 THEN 2 ELSE 1

C1_Witness ==
    /\ pc = "done"
    /\ Len(calls) = 2
    /\ returned[1].status = 255
    /\ returned[2].status = 17

\* C2: when the native call returns 0xFF on the first call and 0xFF again
\* on the retry, pipeline ends with Err(GDCMError::Unknown): never with Ok,
\* never with a further retry.
C2_SecondOversizedFails ==
    (Len(returned) = 2 /\ returned[1].status = 255 /\ returned[2].status = 255) =>
        /\ Len(calls) = 2
        /\ pc \in {"retried", "done"}
        /\ ~ENABLED Retry
        /\ pc = "retried" => ENABLED Translate
        /\ pc = "done" => result = <<"Err", "Unknown">>

C2_Witness ==
    /\ pc = "done"
    /\ Len(returned) = 2
    /\ returned[1].status = 255
    /\ returned[2].status = 255
    /\ result = <<"Err", "Unknown">>

\* C3: pipeline returns Ok exactly when the last native call made returned
\* status 0, and the length of the bytes returned is then the size that
\* call reported.
C3_OkLength ==
    pc = "done" =>
        /\ result = <<"Ok">> <=> Last(returned).status = 0
        /\ result = <<"Ok">> => source_len = Last(returned).size

C3_Witness ==
    /\ pc = "done"
    /\ result = <<"Ok">>
    /\ Len(returned) = 2
    /\ source_len = Last(returned).size
    /\ source_len # input_len

PreKinds ==
    <<"ReadStream", "FileExplicitFilter", "InvalidTransferSyntax",
      "ExecuteChange", "DeriveFile", "WriteStream">>
PhotoKinds ==
    <<"ReadStream", "InvalidPhotometricInterpretation", "ExecuteChange",
      "ExecuteLUTChange", "WriteStream">>
ExpectedResult(status) ==
    IF status = 0 THEN <<"Ok">>
    ELSE IF status \in 17 .. 22 THEN <<"Err", "Pre", PreKinds[status - 16]>>
    ELSE IF status \in 33 .. 37 THEN <<"Err", "Photo", PhotoKinds[status - 32]>>
    ELSE IF status \in 49 .. 54 THEN <<"Err", "Post", PreKinds[status - 48]>>
    ELSE IF status = 15 THEN <<"Err", "PointerNULL">>
    ELSE IF status = 31 THEN <<"Err", "EmptyBuffer">>
    ELSE <<"Err", "Unknown">>

\* C5: the result of pipeline is a total function of the final native
\* status: 0x00 Ok, 0x11-0x16 Pre(..), 0x21-0x25 Photo(..), 0x31-0x36
\* Post(..), 0x0F PointerNULL, 0x1F EmptyBuffer, anything else (values above
\* 0xFF too) Unknown.
C5_StatusTable ==
    pc = "done" => result = ExpectedResult(Last(returned).status)

C5_Witness ==
    /\ pc = "done"
    /\ Last(returned).status = 273
    /\ result = <<"Err", "Unknown">>

\* the documented mapping of the post syntax onto (is_lossy, quality1,
\* quality2, quality3, irreversible, allow_error), the integers being the
\* payloads themselves
ExpectedParameters(post) ==
    CASE post[1] \in {"JPEGBaselineProcess1", "JPEGExtendedProcess2_4"} ->
            <<post[2] # <<0, 0>>, post[2], <<0, 0>>, <<0, 0>>, FALSE, <<0, 0>>>>
      [] post[1] = "JPEGLSNearLossless" ->
            <<post[2] # <<0, 0>>, <<0, 0>>, <<0, 0>>, <<0, 0>>, FALSE, post[2]>>
      [] post[1] \in {"JPEG2000", "JPEG2000Part2"} ->
            <<post[2] # <<0, 0>> \/ post[3] # <<0, 0>> \/ post[4] # <<0, 0>> \/ post[5],
              post[2], post[3], post[4], post[5], <<0, 0>>>>
      [] OTHER -> <<FALSE, <<0, 0>>, <<0, 0>>, <<0, 0>>, FALSE, <<0, 0>>>>

\* the six codec parameters of a call, the flags as booleans
PassedParameters(c) ==
    <<c.is_lossy # 0, c.quality1, c.quality2, c.quality3, c.irreversible # 0,
      c.allow_error>>

\* C6 as stated: on the first call and on the retry alike, the six codec
\* parameters passed to the native call are the documented mapping of the
\* post syntax, whatever the pre syntax and the photometric interpretation.
C6_Original ==
    \A i \in 1 .. Len(calls) :
        PassedParameters(calls[i]) = ExpectedParameters(transfer_syntax_post)

\* C7: at the first native call the capacity is at least the input length
\* plus e when estimated_length is Some(e), and at least four times the
\* input length when it is None.
C7_InitialCapacity ==
    Len(calls) >= 1 =>
        /\ estimated_length # None =>
              capacity_at_call[1] >= input_len + estimated_length[1]
        /\ estimated_length = None => capacity_at_call[1] >= 4 * input_len

C7_Witness ==
    /\ Len(calls) >= 1
    /\ input_len = 100
    /\ estimated_length = None
    /\ capacity_at_call[1] >= 400

\* C8 as stated: on every native call, the first and the retry alike, the
\* max_size argument is the capacity of the buffer at that call.
C8_Original ==
    \A i \in 1 .. Len(calls) : calls[i].max_size = capacity_at_call[i]

\* C8 as amended: on the first native call max_size is the capacity of the
\* buffer at that call; on the retry max_size is the needed size the first
\* call reported, which is at most the capacity of the buffer at that call.
C8_MaxSize ==
    /\ Len(calls) >= 1 => calls[1].max_size = capacity_at_call[1]
    /\ Len(calls) >= 2 =>
          /\ calls[2].max_size = returned[1].size
          /\ calls[2].max_size <= capacity_at_call[2]

C8_Witness ==
    /\ Len(calls) = 2
    /\ calls[1].max_size = capacity_at_call[1]
    /\ calls[2].max_size = returned[1].size
    /\ calls[2].max_size < capacity_at_call[2]

\* C9: when the first native call returns 0xFF with needed size N, the
\* capacity at the retry call is at least N and at least the capacity at the
\* first call.
C9_CapacityGrows ==
    Len(calls) = 2 =>
        /\ returned[1].status = 255
        /\ capacity_at_call[2] >= returned[1].size
        /\ capacity_at_call[2] >= capacity_at_call[1]
        /\ source_cap >= capacity_at_call[2]

C9_Witness ==
    /\ Len(calls) = 2
    /\ capacity_at_call[1] \in 400 .. 499
    /\ returned[1].size = 5000
    /\ capacity_at_call[2] >= 5000

\* the ids of the transfer syntaxes and photometric interpretations
AllSyntaxes == TransferSyntax(U32Samples)
SyntaxNames == {ts[1] : ts \in AllSyntaxes}
SyntaxIdsDistinct ==
    /\ Cardinality(SyntaxNames) = 16
    /\ \A a \in AllSyntaxes : TransferSyntax_to_id(a) \in 0 .. 15
    /\ \A a, b \in AllSyntaxes :
          (TransferSyntax_to_id(a) = TransferSyntax_to_id(b)) <=> (a[1] = b[1])
    /\ TransferSyntax_to_id(<<"None">>) = 0
PhotometricIdsDistinct ==
    /\ Cardinality(PhotometricInterpretation) = 14
    /\ \A a \in PhotometricInterpretation :
          PhotometricInterpretation_to_id(a) \in 0 .. 13
    /\ \A a, b \in PhotometricInterpretation :
          (PhotometricInterpretation_to_id(a) = PhotometricInterpretation_to_id(b))
              <=> (a = b)
    /\ PhotometricInterpretation_to_id("None") = 0

\* C10: TransferSyntax::to_id maps the 16 variants, whatever their payloads,
\* to 16 distinct ids in 0..15 with None at 0; PhotometricInterpretation::
\* to_id maps the 14 variants to 14 distinct ids in 0..13 with None at 0; and
\* the ids passed to the native call for pre, post and photometric are these.
C10_Ids ==
    /\ SyntaxIdsDistinct
    /\ PhotometricIdsDistinct
    /\ \A i \in 1 .. Len(calls) :
          /\ calls[i].transfer_syntax_pre = TransferSyntax_to_id(transfer_syntax_pre)
          /\ calls[i].transfer_syntax_post = TransferSyntax_to_id(transfer_syntax_post)
          /\ calls[i].photometric_interpretation =
                 PhotometricInterpretation_to_id(photometric_interpretation)
          /\ (calls[i].transfer_syntax_pre = calls[i].transfer_syntax_post)
                 <=> (transfer_syntax_pre[1] = transfer_syntax_post[1])
          /\ (calls[i].transfer_syntax_pre = 0) <=> (transfer_syntax_pre = <<"None">>)
          /\ (calls[i].photometric_interpretation = 0)
                 <=> (photometric_interpretation = "None")

C10_Witness ==
    /\ Len(calls) = 2
    /\ transfer_syntax_pre = <<"RLELossless">>
    /\ photometric_interpretation = "YbrRct"
    /\ calls[2].transfer_syntax_pre = 14
    /\ calls[2].photometric_interpretation = 13
    /\ calls[2].transfer_syntax_post = 0

\* C11: on every native call max_size is at most the capacity of the buffer
\* at that call, so that, the native call reporting on success a produced
\* size of at most max_size, the length set on the buffer returned with Ok
\* never exceeds its capacity.
C11_WithinCapacity ==
    /\ \A i \in 1 .. Len(calls) : calls[i].max_size <= capacity_at_call[i]
    /\ (pc = "done" /\ result = <<"Ok">>
            /\ Last(returned).size <= Last(calls).max_size) =>
          source_len <= source_cap

C11_Witness ==
    /\ pc = "done"
    /\ result = <<"Ok">>
    /\ Len(calls) = 2
    /\ calls[2].max_size = 5000
    /\ source_len = 5000
    /\ source_len <= source_cap

\* C12 as stated: for every u32 payload the integer codec parameters the
\* native call receives as i32 are numerically the payload: quality1 = q for
\* JPEGBaselineProcess1(q) and JPEGExtendedProcess2_4(q), allow_error = t for
\* JPEGLSNearLossless(t), quality1..3 = q1..q3 for JPEG2000 and
\* JPEG2000Part2, with no wraparound.
C12_Original ==
    \A i \in 1 .. Len(calls) :
        /\ transfer_syntax_post[1] \in {"JPEGBaselineProcess1", "JPEGExtendedProcess2_4"} =>
              calls[i].quality1 = transfer_syntax_post[2]
        /\ transfer_syntax_post[1] = "JPEGLSNearLossless" =>
              calls[i].allow_error = transfer_syntax_post[2]
        /\ transfer_syntax_post[1] \in {"JPEG2000", "JPEG2000Part2"} =>
              /\ calls[i].quality1 = transfer_syntax_post[2]
              /\ calls[i].quality2 = transfer_syntax_post[3]
              /\ calls[i].quality3 = transfer_syntax_post[4]

====
